---------------------------- MODULE Spec2Model ----------------------------
(***************************************************************************)
(* A model of the resumable ingestion pipeline of src/met_scraper.py:      *)
(* class MetScraper, its constructor (which reloads the metadata file),    *)
(* process_artworks (the per-ID loop), _save_metadata (the checkpoint and  *)
(* the final save), together with the environment the script runs in: the *)
(* remote catalogue, the image endpoint, the filesystem, and the operator  *)
(* who may interrupt or kill the process.                                  *)
(*                                                                         *)
(* Python values are encoded so that every field has one TLA+ type:        *)
(*   - a record ID is a positive integer; None in an ID position is 0;     *)
(*   - local_image_filename is <<>> for None and <<object_id>> for the     *)
(*     file name f"{object_id}{ext}" (the extension is not modelled);      *)
(*   - an absent 'isPublicDomain' behaves as False and an absent           *)
(*     'primaryImage' as '' at both places the code reads them (the        *)
(*     truthiness tests of lines 204/209, the defaults of lines 159/160),  *)
(*     so absence is folded into FALSE and "".                             *)
(***************************************************************************)
EXTENDS Integers, Sequences, FiniteSets, TLC

VARIABLES
    disk,          \* the metadata file (self.output_file) on the filesystem
    pc,            \* control position of the script's process
    exit,          \* how the most recent process ended
    runs,          \* number of processes started so far
    metadata,      \* self.metadata
    processed_ids, \* self.processed_ids
    object_ids,    \* the list returned by _load_object_ids
    idx,           \* position of the for loop in object_ids (1-based)
    download_images, \* argument of process_artworks
    save_frequency,  \* argument of process_artworks
    loaded,        \* history: what _load_existing_metadata returned at construction
    fetched,       \* history: IDs for which _fetch_artwork_data was called in this run
    downloaded,    \* history: IDs for which _download_image was called in this run
    last,          \* history: the ID, the outcome and the requests and waits of
                   \*          the most recent loop iteration, in order
    acceptedIds,   \* history: the input IDs whose records this run appended, in order
    prevIds,       \* history: the input list of the preceding run if it returned, else NoRun
    catalog        \* the catalogue's pinned answers (used by SpecRerun only)

vars == <<disk, pc, exit, runs, metadata, processed_ids, object_ids, idx,
          download_images, save_frequency, loaded, fetched, downloaded, last,
          acceptedIds, prevIds, catalog>>

---------------------------------------------------------------------------
(* Bounds of the model *)

MaxId == 2
MaxLen == 2
MaxRuns == 2
MaxFreq == 2

IDs == 1..MaxId
NoneVal == 0
Url == "https://images.metmuseum.org/CRDImages/original/a.jpg"

\* The input lists: every sequence of IDs of length at most MaxLen, repeats included.
IdLists == UNION {[1..n -> IDs] : n \in 0..MaxLen}
NoRun == <<NoneVal>>

---------------------------------------------------------------------------
(* The environment's answers *)

\* What GET {base_url}/{id} yields: a transport/HTTP error (the function
\* returns None), an empty JSON object (falsy, line 198), or a record.
NoData == [status |-> "error", objectID |-> NoneVal, isPublicDomain |-> FALSE,
           primaryImage |-> ""]
EmptyBody == [status |-> "empty", objectID |-> NoneVal, isPublicDomain |-> FALSE,
              primaryImage |-> ""]
Records == [status : {"ok"}, objectID : IDs \cup {NoneVal},
            isPublicDomain : BOOLEAN, primaryImage : {"", Url}]
Responses == {NoData, EmptyBody} \cup Records

\* What the image GET and the write of the image file do: succeed, fail with
\* a requests exception (caught, line 129), or fail with an OSError from
\* open()/f.write() (lines 122-124, not caught by line 129).
DownloadOutcomes == {"ok", "request_error", "os_error"}

Unknown == [resp |-> NoData, dl |-> "unknown"]
Answers == [resp : Responses, dl : DownloadOutcomes]

---------------------------------------------------------------------------
(* The metadata file *)

\* kind "absent": no file; "partial": opened with 'w' (truncated) and not yet
\* completely written; "list": a complete JSON array of entries; entries
\* holds the text of the entries written (see JsonDumpEntry).  The other
\* kinds are files the script did not write: "nonlist" (valid JSON, not an
\* array of objects), "noid" (an array of objects without 'objectID'),
\* "undecodable" (bytes that are not UTF-8).
Absent == [kind |-> "absent", entries |-> <<>>]
File(kind, entries) == [kind |-> kind, entries |-> entries]

\* The text json.dump writes for a value and the value json.load reads back.
\* A JSON token is [type, num, str]: null, true, false, a number (num), or a
\* string whose text is the decimal digits of num (when num > 0) followed by
\* str.  None is written as null, an int as a number, a bool as true/false,
\* a str as a string; the file name <<object_id>> is the string
\* "<object_id>.jpg".
JNull == [type |-> "null", num |-> 0, str |-> ""]
JNumber(n) == [type |-> "number", num |-> n, str |-> ""]
JBool(b) == [type |-> IF b THEN "true" ELSE "false", num |-> 0, str |-> ""]
JString(n, s) == [type |-> "string", num |-> n, str |-> s]

DumpId(v) == IF v = NoneVal THEN JNull ELSE JNumber(v)
LoadId(t) == IF t.type = "null" THEN NoneVal ELSE t.num
DumpBool(b) == JBool(b)
LoadBool(t) == t.type = "true"
DumpStr(x) == JString(0, x)
LoadStr(t) == t.str
DumpLocalImage(l) == IF l = <<>> THEN JNull ELSE JString(l[1], ".jpg")
LoadLocalImageNullAsName(t) == <<t.num>>
LoadLocalImage(t) == IF t.type = "null" THEN <<>> ELSE <<t.num>>

\* json.dump of one entry (line 169) and json.load of one entry (line 50)
JsonDumpEntry(e) ==
    [objectID |-> DumpId(e.objectID),
     isPublicDomain |-> DumpBool(e.isPublicDomain),
     primaryImage |-> DumpStr(e.primaryImage),
     localImage |-> DumpLocalImage(e.localImage)]
JsonLoadEntry(t) ==
    [objectID |-> LoadId(t.objectID),
     isPublicDomain |-> LoadBool(t.isPublicDomain),
     primaryImage |-> LoadStr(t.primaryImage),
     localImage |-> LoadLocalImage(t.localImage)]
JsonDump(m) == [i \in DOMAIN m |-> JsonDumpEntry(m[i])]
JsonLoad(text) == [i \in DOMAIN text |-> JsonLoadEntry(text[i])]

\* _load_existing_metadata: the two handled exceptions give [].
LoadExistingMetadata(d) ==
    IF d.kind = "list" THEN JsonLoad(d.entries) ELSE <<>>

\* Construction raises when open/json.load raises something other than the
\* two handled exceptions, or when line 44 cannot subscript an item.
ConstructionRaises(d) == d.kind \in {"nonlist", "noid", "undecodable"}

ProcessedIdsNone(m) == {}
\* line 44: set(item['objectID'] for item in self.metadata)
ProcessedIdsOf(m) == {m[i].objectID : i \in DOMAIN m}

---------------------------------------------------------------------------
(* Pure helpers of the loop body *)

IsEligibleFlagOnly(data) == data.isPublicDomain
\* lines 204-212: both truthiness tests must pass
IsEligible(data) == data.isPublicDomain /\ data.primaryImage # ""

DownloadImageAlwaysNamed(outcome, object_id) == <<object_id>>
DownloadImageNeverNamed(outcome, object_id) == <<>>
\* _download_image's return value when it returns: the file name, or None
DownloadImage(outcome, object_id) ==
    IF outcome = "ok" THEN <<object_id>> ELSE <<>>

\* _extract_metadata: objectID comes from the response, not from the request
ExtractMetadata(artwork_data, local_image_filename) ==
    [objectID |-> artwork_data.objectID,
     isPublicDomain |-> artwork_data.isPublicDomain,
     primaryImage |-> artwork_data.primaryImage,
     localImage |-> local_image_filename]

CheckpointNever(len, n) == FALSE
CheckpointOffByOne(len, n) == (len + 1) % n = 0
\* line 226
CheckpointDue(len, n) == len % n = 0

NoIteration == [id |-> NoneVal, outcome |-> "none", events |-> <<>>]

\* requests.get (lines 89, 107) and time.sleep(self.rate_limit_delay)
\* (lines 200, 206, 211, 230), as events of the iteration
HttpGetRetried(events) == Append(Append(events, "get"), "get")
HttpGet(events) == Append(events, "get")
SleepSkipped(events) == events
Sleep(events) == Append(events, "sleep")

---------------------------------------------------------------------------
Init ==
    /\ disk = Absent
    /\ pc = "down"
    /\ exit = "none"
    /\ runs = 0
    /\ metadata = <<>>
    /\ processed_ids = {}
    /\ object_ids = <<>>
    /\ idx = 1
    /\ download_images = TRUE
    /\ save_frequency = 1
    /\ loaded = <<>>
    /\ fetched = {}
    /\ downloaded = {}
    /\ last = NoIteration
    /\ acceptedIds = <<>>
    /\ prevIds = NoRun
    /\ catalog = [i \in IDs |-> Unknown]

\* The process ends: by returning from process_artworks, by an exception that
\* nothing catches (main() has no handler), or by being killed.  Its memory is
\* gone; metadata and processed_ids keep the values they had when the call
\* unwound (they are history from here on), and the history of a run that
\* returned is kept until the next run starts.
Ends(how) ==
    /\ pc' = "down"
    /\ exit' = how
    /\ idx' = 1
    /\ download_images' = TRUE
    /\ save_frequency' = 1
    /\ last' = NoIteration
    /\ metadata' = IF how = "killed" THEN <<>> ELSE metadata
    /\ processed_ids' = IF how = "killed" THEN {} ELSE processed_ids
    /\ object_ids' = IF how = "returned" THEN object_ids ELSE <<>>
    /\ loaded' = IF how = "returned" THEN loaded ELSE <<>>
    /\ fetched' = IF how = "returned" THEN fetched ELSE {}
    /\ downloaded' = IF how = "returned" THEN downloaded ELSE {}
    /\ acceptedIds' = IF how = "returned" THEN acceptedIds ELSE <<>>
    /\ UNCHANGED <<runs, prevIds>>

\* MetScraper.__init__ (lines 42-44)
Construct ==
    /\ pc = "down"
    /\ runs < MaxRuns
    /\ runs' = runs + 1
    /\ IF ConstructionRaises(disk)
       THEN /\ pc' = "down"
            /\ exit' = "raised_ctor"
            /\ metadata' = <<>>
            /\ processed_ids' = {}
            /\ object_ids' = <<>>
       ELSE /\ pc' = "ready"
            /\ exit' = exit
            /\ metadata' = LoadExistingMetadata(disk)
            /\ processed_ids' = ProcessedIdsOf(LoadExistingMetadata(disk))
            /\ object_ids' = object_ids
    /\ loaded' = metadata'
    /\ fetched' = {}
    /\ downloaded' = {}
    /\ acceptedIds' = <<>>
    /\ UNCHANGED <<disk, idx, download_images, save_frequency, last,
                   prevIds, catalog>>

\* process_artworks up to the loop head (lines 180-187), input list well-formed
ProcessArtworks ==
    /\ pc = "ready"
    /\ \E ids \in IdLists, dl \in BOOLEAN, n \in 1..MaxFreq :
          /\ object_ids' = ids
          /\ download_images' = dl
          /\ save_frequency' = n
    /\ prevIds' = IF exit = "returned" THEN object_ids ELSE NoRun
    /\ idx' = 1
    /\ pc' = "loop"
    /\ exit' = "none"
    /\ UNCHANGED <<disk, runs, metadata, processed_ids, loaded, fetched,
                   downloaded, last, acceptedIds, catalog>>

ProcessArtworksBadInputSaves ==
    /\ pc = "ready"
    /\ Ends("raised_input")
    /\ disk' = File("list", JsonDump(metadata))
    /\ UNCHANGED catalog

\* _load_object_ids raises (lines 68-72): nothing else of process_artworks runs
ProcessArtworksBadInput ==
    /\ pc = "ready"
    /\ Ends("raised_input")
    /\ UNCHANGED <<disk, catalog>>

\* The loop goes on to its next position with the given state.
Goes(nextpc, outcome, events, m, p, f, d, a) ==
    /\ pc' = nextpc
    /\ exit' = exit
    /\ idx' = idx + 1
    /\ last' = [id |-> object_ids[idx], outcome |-> outcome, events |-> events]
    /\ metadata' = m
    /\ processed_ids' = p
    /\ fetched' = f
    /\ downloaded' = d
    /\ acceptedIds' = a
    /\ UNCHANGED <<runs, object_ids, download_images, save_frequency, loaded,
                   prevIds>>

\* One iteration of the for loop (lines 187-230) for object_ids[idx], given
\* the catalogue's answer and the image endpoint's outcome.  When the
\* checkpoint is due, the save (line 227) comes before the wait (line 230).
Step(resp, dl) ==
    LET object_id == object_ids[idx]
        local == IF download_images THEN DownloadImage(dl, object_id) ELSE <<>>
        entry == ExtractMetadata(resp, local)
        f == fetched \cup {object_id}
        d == IF download_images THEN downloaded \cup {object_id} ELSE downloaded
        got == HttpGet(<<>>)
        gotBoth == IF download_images THEN HttpGet(got) ELSE got
        due == CheckpointDue(Len(metadata) + 1, save_frequency)
    IN
    /\ pc = "loop"
    /\ idx <= Len(object_ids)
    /\ IF object_id \in processed_ids
       THEN \* lines 189-191
            Goes("loop", "SkippedProcessed", <<>>, metadata, processed_ids,
                 fetched, downloaded, acceptedIds)
       ELSE IF resp.status # "ok"
       THEN \* lines 196-201
            Goes("loop", "FetchFailed", Sleep(got), metadata, processed_ids,
                 f, downloaded, acceptedIds)
       ELSE IF ~IsEligible(resp)
       THEN \* lines 204-212
            Goes("loop", "SkippedIneligible", Sleep(got), metadata,
                 processed_ids, f, downloaded, acceptedIds)
       ELSE IF download_images /\ dl = "os_error"
       THEN \* lines 122-124 raise through line 218 and out of the loop
            Ends("raised_download")
       ELSE \* lines 215-230
            Goes(IF due THEN "ckpt_open" ELSE "loop",
                 IF download_images /\ dl # "ok"
                 THEN "DownloadFailed" ELSE "Succeeded",
                 IF due THEN gotBoth ELSE Sleep(gotBoth),
                 Append(metadata, entry),
                 processed_ids \cup {object_id}, f, d,
                 Append(acceptedIds, object_id))
    /\ UNCHANGED disk

\* The catalogue and the image endpoint answer as they please.
Iterate ==
    /\ \E resp \in Responses, dl \in DownloadOutcomes : Step(resp, dl)
    /\ UNCHANGED catalog

\* The same iteration against a catalogue that gives one answer per ID:
\* the first answer for an ID is pinned and every later request repeats it.
IterateStable ==
    /\ pc = "loop"
    /\ idx <= Len(object_ids)
    /\ \E a \in Answers :
          /\ catalog[object_ids[idx]] \in {Unknown, a}
          /\ Step(a.resp, a.dl)
          /\ catalog' = IF object_ids[idx] \in processed_ids
                        THEN catalog
                        ELSE [catalog EXCEPT ![object_ids[idx]] = a]

\* _save_metadata, line 168: open(..., 'w') truncates the file in place
SaveOpen ==
    /\ \/ pc = "ckpt_open" /\ pc' = "ckpt_dump"
       \/ pc = "loop" /\ idx > Len(object_ids) /\ pc' = "final_dump"
    /\ disk' = File("partial", <<>>)
    /\ UNCHANGED <<exit, runs, metadata, processed_ids, object_ids, idx,
                   download_images, save_frequency, loaded, fetched,
                   downloaded, last, acceptedIds, prevIds, catalog>>

\* _save_metadata, line 169: json.dump writes the document piece by piece
SaveDump ==
    /\ pc \in {"ckpt_dump", "final_dump"}
    /\ Len(disk.entries) < Len(metadata)
    /\ disk' = File("partial", Append(disk.entries,
                                      JsonDumpEntry(metadata[Len(disk.entries) + 1])))
    /\ UNCHANGED <<pc, exit, runs, metadata, processed_ids, object_ids, idx,
                   download_images, save_frequency, loaded, fetched,
                   downloaded, last, acceptedIds, prevIds, catalog>>

\* _save_metadata returns: the closing bracket is written and the file closed.
\* After a checkpoint the loop goes on (line 230); after the final save
\* process_artworks returns (lines 233-238).
SaveClose ==
    /\ pc \in {"ckpt_dump", "final_dump"}
    /\ Len(disk.entries) = Len(metadata)
    /\ disk' = File("list", JsonDump(metadata))
    /\ IF pc = "ckpt_dump"
       THEN /\ pc' = "loop"
            /\ last' = [last EXCEPT !.events = Sleep(@)]
            /\ UNCHANGED <<exit, runs, metadata, processed_ids, object_ids,
                           idx, download_images, save_frequency, loaded,
                           fetched, downloaded, acceptedIds, prevIds>>
       ELSE Ends("returned")
    /\ UNCHANGED catalog

SaveFailsSwallowed ==
    /\ pc \in {"ckpt_open", "ckpt_dump"}
    /\ pc' = "loop"
    /\ UNCHANGED <<disk, exit, runs, metadata, processed_ids, object_ids, idx,
                   download_images, save_frequency, loaded, fetched,
                   downloaded, last, acceptedIds, prevIds, catalog>>

\* open() or a write of _save_metadata raises OSError: nothing catches it
SaveFails ==
    /\ \/ pc = "ckpt_open"
       \/ pc = "loop" /\ idx > Len(object_ids)
       \/ pc \in {"ckpt_dump", "final_dump"}
    /\ Ends("raised_write")
    /\ UNCHANGED <<disk, catalog>>

\* The operator asks the run to stop between two IDs (KeyboardInterrupt
\* during time.sleep): the exception leaves the loop of lines 187-230.
Interrupt ==
    /\ pc = "loop"
    /\ idx > 1
    /\ idx <= Len(object_ids)
    /\ Ends("interrupted")
    /\ UNCHANGED <<disk, catalog>>

\* The process is terminated (kill, power loss) wherever it is.
Crash ==
    /\ pc # "down"
    /\ Ends("killed")
    /\ UNCHANGED <<disk, catalog>>

Next ==
    \/ Construct
    \/ ProcessArtworks
    \/ ProcessArtworksBadInput
    \/ Iterate
    \/ SaveOpen
    \/ SaveDump
    \/ SaveClose
    \/ SaveFails
    \/ Interrupt
    \/ Crash

Spec == Init /\ [][Next]_vars

\* The same program against a catalogue whose answers do not change.
NextRerun ==
    \/ Construct
    \/ ProcessArtworks
    \/ ProcessArtworksBadInput
    \/ IterateStable
    \/ SaveOpen
    \/ SaveDump
    \/ SaveClose
    \/ SaveFails
    \/ Interrupt
    \/ Crash

SpecRerun == Init /\ [][NextRerun]_vars

\* The same program started over whatever file it finds at output_file.
PriorFiles ==
    {Absent, File("partial", <<>>), File("list", <<>>), File("nonlist", <<>>),
     File("noid", <<>>), File("undecodable", <<>>)}
      \cup {File("list", JsonDump(<<ExtractMetadata(r, <<>>)>>)) :
               r \in {x \in Records : IsEligible(x)}}

InitLoad ==
    /\ disk \in PriorFiles
    /\ pc = "down"
    /\ exit = "none"
    /\ runs = 0
    /\ metadata = <<>>
    /\ processed_ids = {}
    /\ object_ids = <<>>
    /\ idx = 1
    /\ download_images = TRUE
    /\ save_frequency = 1
    /\ loaded = <<>>
    /\ fetched = {}
    /\ downloaded = {}
    /\ last = NoIteration
    /\ acceptedIds = <<>>
    /\ prevIds = NoRun
    /\ catalog = [i \in IDs |-> Unknown]

SpecLoad == InitLoad /\ [][Next]_vars

---------------------------------------------------------------------------
(* Properties *)

\* The IDs carried by the entries that were in the metadata file at construction.
StartIds == {loaded[i].objectID : i \in DOMAIN loaded} \ {NoneVal}

\* The number of records this run has appended to the collection.
Accepted == Len(metadata) - Len(loaded)

\* The process stands between two iterations of the loop (or after the last).
BetweenIterations == pc = "loop"

\* C1: an ID whose entry was in the metadata file when the scraper was
\* constructed is never fetched and never downloaded by process_artworks,
\* however often the input list names it.
C1_ResumeSkipsCompleted ==
    /\ fetched \cap StartIds = {}
    /\ downloaded \cap StartIds = {}

\* C1 witness: the list named a stored ID twice and the loop has passed both.
C1_Witness ==
    /\ pc = "loop"
    /\ idx = 3
    /\ object_ids[1] = object_ids[2]
    /\ object_ids[1] \in StartIds
    /\ last.outcome = "SkippedProcessed"

C3_FileAlwaysComplete == disk.kind # "partial"

\* C4: between two iterations, if the k*N-th record has been accepted (counted
\* in the collection or in this run, k >= 1, N = save_frequency), a fresh load
\* of the file yields at least k*N entries and never more than were appended.
C4_CheckpointDurability ==
    BetweenIterations =>
        \A k \in 1..Len(metadata) :
            (Len(metadata) = k * save_frequency \/ Accepted = k * save_frequency)
                => /\ Len(LoadExistingMetadata(disk)) >= k * save_frequency
                   /\ Len(LoadExistingMetadata(disk)) <= Len(metadata)

\* C4 witness: with N = 2 the second record of the collection has just been
\* accepted, and the run is about to go on.
C4_Witness ==
    /\ pc = "loop"
    /\ save_frequency = 2
    /\ Len(metadata) = 2
    /\ Accepted >= 1
    /\ last.outcome \in {"Succeeded", "DownloadFailed"}

\* C5: when process_artworks has been left, by exhausting the list, by a stop
\* request between IDs or by an error of the loop body, the file holds the
\* whole in-memory collection.
C5_FinalFlushOnExit ==
    (pc = "down" /\ exit \in {"returned", "interrupted", "raised_download"})
        => LoadExistingMetadata(disk) = metadata

\* C6: no failure of a fetch or of a download for one ID ends the run.
C6_PerIdFailuresIsolated == exit # "raised_download"

\* C7: a fetched record that fails eligibility is not appended, its ID is not
\* added to processed_ids, it is not downloaded, and no entry of the
\* collection or of the file fails eligibility.
C7_IneligibleNeverPersisted ==
    /\ \A i \in DOMAIN metadata :
          metadata[i].isPublicDomain /\ metadata[i].primaryImage # ""
    /\ \A i \in DOMAIN disk.entries :
          /\ JsonLoadEntry(disk.entries[i]).isPublicDomain
          /\ JsonLoadEntry(disk.entries[i]).primaryImage # ""
    /\ last.outcome = "SkippedIneligible"
          => /\ last.id \notin processed_ids
             /\ last.id \notin downloaded

\* C7 witness: an ineligible record has just been handled in a run whose
\* collection is not empty and has been saved.
C7_Witness ==
    /\ pc = "loop"
    /\ last.outcome = "SkippedIneligible"
    /\ last.id \in fetched
    /\ Len(metadata) >= 1
    /\ disk.kind = "list"
    /\ LoadExistingMetadata(disk) = metadata

\* C8: the durable collection never holds two entries with the same record ID.
C8_AtMostOneEntryPerId ==
    disk.kind = "list" =>
        \A i, j \in DOMAIN disk.entries :
            (i # j /\ LoadExistingMetadata(disk)[i].objectID # NoneVal)
                => LoadExistingMetadata(disk)[i].objectID
                     # LoadExistingMetadata(disk)[j].objectID

\* C9: a run that returns, over the list of the preceding run (which also
\* returned) and with the same answers of the catalogue, leaves the file as
\* it found it and fetches no ID whose entry the file held.
C9_IdempotentRestart ==
    (pc = "down" /\ exit = "returned" /\ prevIds = object_ids)
        => /\ disk.kind = "list"
           /\ LoadExistingMetadata(disk) = loaded
           /\ fetched \cap StartIds = {}

\* C10: construction never fails on the prior output, whatever it holds.
C10_LoadDegrades == exit # "raised_ctor"

\* The requests and the waits among the events of an iteration.
Gets(events) == Cardinality({i \in DOMAIN events : events[i] = "get"})
Waits(events) == Cardinality({i \in DOMAIN events : events[i] = "sleep"})

\* The outcomes of an iteration that appended a record.
AcceptedOutcomes == {"Succeeded", "DownloadFailed"}

\* The process is inside _save_metadata or about to call it.
InSave ==
    \/ pc \in {"ckpt_open", "ckpt_dump", "final_dump"}
    \/ pc = "loop" /\ idx > Len(object_ids)

\* a is l with some elements left out, the order kept.
IsSubsequence(a, l) ==
    \E pos \in [DOMAIN a -> DOMAIN l] :
        /\ \A i, j \in DOMAIN a : i < j => pos[i] < pos[j]
        /\ \A i \in DOMAIN a : l[pos[i]] = a[i]

\* C11: when the input list is malformed, process_artworks ends at once: the
\* file, the collection and the processed-ID set are as they were and no
\* fetch and no download has been made.
C11_BadInputTouchesNothing ==
    [][(pc = "ready" /\ exit' = "raised_input")
         => /\ pc' = "down"
            /\ disk' = disk
            /\ metadata' = metadata
            /\ processed_ids' = processed_ids
            /\ fetched = {} /\ fetched' = {}
            /\ downloaded = {} /\ downloaded' = {}]_vars

\* C11 witness: a run over a malformed list has ended and the entries of an
\* earlier run are still in the file.
C11_Witness ==
    /\ pc = "down"
    /\ exit = "raised_input"
    /\ disk.kind = "list"
    /\ Len(disk.entries) >= 1
    /\ LoadExistingMetadata(disk) = metadata

C13_OneWaitPerIteration ==
    (pc = "loop" /\ last.outcome # "none") => Waits(last.events) = 1

\* C13 amended: a finished iteration made exactly one rate-limit wait when it
\* fetched, and none when it skipped an already-processed ID.
C13_OneWaitPerFetchingIteration ==
    (pc = "loop" /\ last.outcome # "none")
        => Waits(last.events)
             = (IF last.outcome = "SkippedProcessed" THEN 0 ELSE 1)

\* C13 witness: an already-processed ID has just been skipped, without a wait,
\* after an iteration of the same run that fetched.
C13_Witness ==
    /\ pc = "loop"
    /\ last.outcome = "SkippedProcessed"
    /\ last.events = <<>>
    /\ fetched # {}

C15_ProcessedSetConsistent ==
    pc # "down" =>
        \A id \in processed_ids :
            \E i \in DOMAIN metadata : metadata[i].objectID = id

\* C16: between two iterations fewer than N entries of the collection are
\* missing from the file, whatever was loaded at startup; a checkpoint is
\* under way only when an append has made the size a multiple of N, and after
\* such an append the file holds the whole collection.
C16_BoundedDataLoss ==
    /\ pc = "loop"
          => /\ Len(LoadExistingMetadata(disk)) <= Len(metadata)
             /\ Len(metadata) - Len(LoadExistingMetadata(disk)) < save_frequency
    /\ pc \in {"ckpt_open", "ckpt_dump"}
          => /\ Len(metadata) % save_frequency = 0
             /\ last.outcome \in AcceptedOutcomes
    /\ (pc = "loop" /\ last.outcome \in AcceptedOutcomes
            /\ Len(metadata) % save_frequency = 0)
          => LoadExistingMetadata(disk) = metadata

\* C16 witness: N = 2, one entry loaded at startup, two appended: the file
\* holds two entries and one is not yet saved.
C16_Witness ==
    /\ pc = "loop"
    /\ save_frequency = 2
    /\ Len(loaded) = 1
    /\ Len(metadata) = 3
    /\ Len(LoadExistingMetadata(disk)) = 2

\* C17: the entry an iteration appends has a local image exactly when the
\* download was made and succeeded, and then it names the file of that ID;
\* it has none when downloading is disabled.
C17_LocalImageIffDownloaded ==
    (pc # "down" /\ last.outcome \in AcceptedOutcomes)
        => LET e == metadata[Len(metadata)] IN
           /\ e.localImage # <<>>
                <=> (download_images /\ last.outcome = "Succeeded"
                       /\ last.id \in downloaded)
           /\ e.localImage # <<>> => e.localImage = <<last.id>>
           /\ ~download_images => e.localImage = <<>>

\* C17 witness: an entry with a local image has been appended and saved.
C17_Witness ==
    /\ pc = "loop"
    /\ last.outcome = "Succeeded"
    /\ download_images
    /\ metadata[Len(metadata)].localImage = <<last.id>>
    /\ LoadExistingMetadata(disk) = metadata

\* C18: after a run that started without a store and returned, the file holds
\* exactly one entry for each accepted input ID, in the order of the input
\* list, each eligible and carrying that ID, and nothing else; and while fewer
\* than N records are accepted nothing is written before the final save.
C18_ResultOfCompletedRun ==
    /\ (runs = 1 /\ pc = "down" /\ exit = "returned")
          => /\ disk.kind = "list"
             /\ Len(LoadExistingMetadata(disk)) = Len(acceptedIds)
             /\ IsSubsequence(acceptedIds, object_ids)
             /\ \A i, j \in DOMAIN acceptedIds :
                   i # j => acceptedIds[i] # acceptedIds[j]
             /\ {acceptedIds[i] : i \in DOMAIN acceptedIds} \subseteq fetched
             /\ \A i \in DOMAIN LoadExistingMetadata(disk) :
                   /\ LoadExistingMetadata(disk)[i].isPublicDomain
                   /\ LoadExistingMetadata(disk)[i].primaryImage # ""
                   /\ LoadExistingMetadata(disk)[i].objectID = acceptedIds[i]
    /\ (runs = 1 /\ pc = "loop" /\ Len(metadata) < save_frequency)
          => disk = Absent
    /\ (runs = 1 /\ pc \in {"ckpt_open", "ckpt_dump"})
          => Len(metadata) >= save_frequency

\* C19: the only ways out of _save_metadata are to finish the write, to be
\* killed, or to end the process with the write error; after a failed write
\* nothing is fetched, downloaded or appended.
C19_WriteFailureIsFatal ==
    [][(/\ InSave
        /\ pc' \notin {"ckpt_dump", "final_dump"}
        /\ ~(disk'.kind = "list" /\ disk' # disk)
        /\ exit' # "killed")
         => /\ pc' = "down"
            /\ exit' = "raised_write"
            /\ disk' = disk
            /\ metadata' = metadata
            /\ processed_ids' = processed_ids]_vars

\* C19 witness: a write has failed in the middle of a save of a non-empty
\* collection and the process has ended.
C19_Witness ==
    /\ pc = "down"
    /\ exit = "raised_write"
    /\ disk.kind = "partial"
    /\ Len(metadata) >= 1

===========================================================================
